---------------------------- MODULE Spec2Model ----------------------------
(***************************************************************************)
(* A model of the YAML library: the buffer source, the scalar classifier,  *)
(* the sequence / mapping / document parser and the Node index operators.  *)
(*                                                                         *)
(* Text is a sequence of one-character strings.  The buffer source keeps   *)
(* its zero-based `position` as in the code, so the character under the    *)
(* cursor is buffer[position + 1].                                         *)
(***************************************************************************)
EXTENDS Integers, Sequences, FiniteSets, TLC

VARIABLES
    buffer,       \* Buffer.buffer: the bytes handed to Buffer::new
    position,     \* Buffer.position
    pc,           \* where the running parse stands
    documents,    \* parse: let mut documents
    current_doc,  \* parse: let mut current_doc
    items,        \* parse_sequence: let mut items
    map,          \* parse_mapping: let mut map
    result,       \* what parse returned
    value,        \* the &str handed to parse_scalar
    scalar,       \* what parse_scalar returned
    node,         \* the Node that is indexed
    outcome,      \* what the last index operation did
    earlier,      \* what an earlier parse of the same input returned
    file,         \* sources::File.file: the open file and its read offset
    current_byte, \* sources::File.current_byte
    buffer_use,   \* the calls made on the Buffer source since new or reset
    file_use,     \* the calls made on the File source since new or reset
    dest_buffer,  \* destinations::Buffer.buffer
    dest_file,    \* destinations::File.file: the file on disk and the handle
    file_length,  \* destinations::File.file_length
    added_buffer, \* the bytes added to the Buffer destination since new or clear
    added_file    \* the bytes added to the File destination since new or clear

parseVars  == <<buffer, position, pc, documents, current_doc, items, map,
                result, earlier>>
scalarVars == <<value, scalar>>
nodeVars   == <<node, outcome>>
sourceVars == <<file, current_byte, buffer_use, file_use>>
destVars   == <<dest_buffer, dest_file, file_length, added_buffer, added_file>>
vars       == <<buffer, position, pc, documents, current_doc, items, map,
                result, value, scalar, node, outcome, earlier, file,
                current_byte, buffer_use, file_use, dest_buffer, dest_file,
                file_length, added_buffer, added_file>>

---------------------------------------------------------------------------
(* Characters *)

Digit == {"0", "1", "2", "3", "4", "5", "6", "7", "8", "9"}

Letter == {"a", "b", "c", "d", "e", "f", "g", "h", "i", "j", "k", "l", "m",
           "n", "o", "p", "q", "r", "s", "t", "u", "v", "w", "x", "y", "z",
           "A", "B", "C", "D", "E", "F", "G", "H", "I", "J", "K", "L", "M",
           "N", "O", "P", "Q", "R", "S", "T", "U", "V", "W", "X", "Y", "Z"}

\* char::is_alphanumeric, on the characters the model uses
is_alphanumeric(c) == c \in Digit \cup Letter

\* the four characters of ISource::is_whitespace, used in place of
\* char::is_whitespace
is_whitespace_of_trait(c) == c \in {" ", "\t", "\n", "\r"}

\* char::is_whitespace (Unicode White_Space), on one-byte characters: it
\* holds of form feed (and of VT, NEL, NBSP) besides the four characters
\* of ISource::is_whitespace
is_whitespace(c) == c \in {" ", "\t", "\n", "\r", "\f"}

\* ISource::is_whitespace: the default method of the trait
ISource_is_whitespace(c) == c \in {" ", "\t", "\n", "\r"}

\* Option<char>::None
NoChar == "<none>"

DigitVal(c) ==
    CASE c = "0" -> 0 [] c = "1" -> 1 [] c = "2" -> 2 [] c = "3" -> 3
      [] c = "4" -> 4 [] c = "5" -> 5 [] c = "6" -> 6 [] c = "7" -> 7
      [] c = "8" -> 8 [] c = "9" -> 9

\* to_ascii_lowercase, on the letters of "infinity" and "nan" and on 'E'
Lower(c) ==
    CASE c = "I" -> "i" [] c = "N" -> "n" [] c = "F" -> "f" [] c = "T" -> "t"
      [] c = "Y" -> "y" [] c = "A" -> "a" [] c = "E" -> "e"
      [] OTHER -> c

LowerAll(s) == [i \in 1..Len(s) |-> Lower(s[i])]

---------------------------------------------------------------------------
(* Buffer source *)

\* Buffer::more
more(buf, pos) == pos < Len(buf)

\* Buffer::current
current(buf, pos) == IF more(buf, pos) THEN buf[pos + 1] ELSE NoChar

\* the variant that steps over a character
next_by_two(pos) == pos + 2

\* Buffer::next
next(pos) == pos + 1

\* Buffer::reset
reset(pos) == 0

---------------------------------------------------------------------------
(* str helpers *)

RECURSIVE trim_start(_)
trim_start(s) ==
    IF s # <<>> /\ is_whitespace(s[1]) THEN trim_start(Tail(s)) ELSE s

RECURSIVE trim_end(_)
trim_end(s) ==
    IF s # <<>> /\ is_whitespace(s[Len(s)])
    THEN trim_end(SubSeq(s, 1, Len(s) - 1))
    ELSE s

\* str::trim
trim(s) == trim_end(trim_start(s))

AllDigits(s) == \A i \in 1..Len(s) : s[i] \in Digit

RECURSIVE StripLeadingZeros(_)
StripLeadingZeros(ds) ==
    IF Len(ds) > 1 /\ ds[1] = "0" THEN StripLeadingZeros(Tail(ds)) ELSE ds

RECURSIVE StripTrailingZeros(_)
StripTrailingZeros(ds) ==
    IF Len(ds) > 1 /\ ds[Len(ds)] = "0"
    THEN StripTrailingZeros(SubSeq(ds, 1, Len(ds) - 1))
    ELSE ds

\* a < b for digit strings of the same length
RECURSIVE LexLess(_, _)
LexLess(a, b) ==
    IF a = <<>> THEN FALSE
    ELSE IF DigitVal(a[1]) # DigitVal(b[1]) THEN DigitVal(a[1]) < DigitVal(b[1])
    ELSE LexLess(Tail(a), Tail(b))

\* a < b for magnitudes without leading zeros
MagLess(a, b) == Len(a) < Len(b) \/ (Len(a) = Len(b) /\ LexLess(a, b))

\* i64::MAX = 9223372036854775807 and |i64::MIN| = 9223372036854775808
I64MaxMag == <<"9", "2", "2", "3", "3", "7", "2", "0", "3", "6", "8", "5",
               "4", "7", "7", "5", "8", "0", "7">>
I64MinMag == <<"9", "2", "2", "3", "3", "7", "2", "0", "3", "6", "8", "5",
               "4", "7", "7", "5", "8", "0", "8">>

ParseErr == [ok |-> FALSE]

\* str::parse::<i64>: an optional '+' or '-', then one or more ASCII digits,
\* and the value must fit 64 bits.  The value is kept as sign and magnitude
\* (decimal digits without leading zeros).
parse_i64(s) ==
    LET signed == s # <<>> /\ s[1] \in {"+", "-"}
        digits == IF signed THEN Tail(s) ELSE s
        neg    == signed /\ s[1] = "-"
        mag    == StripLeadingZeros(digits)
    IN  IF digits = <<>> \/ ~AllDigits(digits) THEN ParseErr
        ELSE IF neg /\ MagLess(I64MinMag, mag) THEN ParseErr
        ELSE IF ~neg /\ MagLess(I64MaxMag, mag) THEN ParseErr
        ELSE [ok |-> TRUE, val |-> [neg |-> neg /\ mag # <<"0">>, mag |-> mag]]


RECURSIVE DigitsToNat(_)
DigitsToNat(ds) ==
    IF ds = <<>> THEN 0
    ELSE 10 * DigitsToNat(SubSeq(ds, 1, Len(ds) - 1)) + DigitVal(ds[Len(ds)])

\* the decimal exponent; it saturates, as in the standard library
ExpMagnitude(ds) ==
    LET mag == StripLeadingZeros(ds)
    IN  IF Len(mag) > 5 THEN 99999 ELSE DigitsToNat(mag)

\* index of the first character of s that is in cs, or 0
FirstIn(s, cs) ==
    IF \E i \in 1..Len(s) : s[i] \in cs
    THEN CHOOSE i \in 1..Len(s) : s[i] \in cs /\ \A j \in 1..(i - 1) : s[j] \notin cs
    ELSE 0

PadTo(ds, n) == [i \in 1..n |-> IF i <= Len(ds) THEN ds[i] ELSE "0"]

\* d1.d2d3... < e1.e2e3... for two significands
SigLess(a, b) ==
    LET n == IF Len(a) < Len(b) THEN Len(b) ELSE Len(a)
    IN  LexLess(PadTo(a, n), PadTo(b, n))

\* the smallest significand that rounds to infinity at exponent 308, and
\* the largest that rounds to zero at exponent -324
F64InfSig  == <<"1", "7", "9", "7", "6", "9", "3", "1", "3", "4", "8", "6",
                "2", "3", "1", "5", "8", "1">>
F64ZeroSig == <<"2", "4", "7", "0", "3", "2", "8", "2", "2", "9", "2", "0",
                "6", "2", "3", "2", "7">>

NaN == [cls |-> "nan"]
Infinity(neg) == [cls |-> "inf", neg |-> neg]
FloatZero == [cls |-> "zero"]

\* the f64 denoted by digits * 10^exp10: a NaN, an infinity, zero (+0.0 and
\* -0.0 are equal) or sign, significand digits and decimal exponent.  Two
\* texts give the same f64 exactly when they give the same value here, for
\* significands of up to 15 digits in the normal range.
FloatValue(neg, digits, exp10) ==
    LET lead == StripLeadingZeros(digits)
        sig  == StripTrailingZeros(lead)
        e10  == exp10 + (Len(lead) - Len(sig))
        sci  == e10 + Len(sig) - 1
    IN  IF lead = <<"0">> THEN FloatZero
        ELSE IF sci > 308 \/ (sci = 308 /\ ~SigLess(sig, F64InfSig))
             THEN Infinity(neg)
        ELSE IF sci < -324 \/ (sci = -324 /\ ~SigLess(F64ZeroSig, sig))
             THEN FloatZero
        ELSE [cls |-> "finite", neg |-> neg, sig |-> sig, exp |-> e10]

InfText      == <<"i", "n", "f">>
InfinityText == <<"i", "n", "f", "i", "n", "i", "t", "y">>
NanText      == <<"n", "a", "n">>

\* str::parse::<f64>:
\*   Float  ::= Sign? ( 'inf' | 'infinity' | 'nan' | Number )
\*   Number ::= ( Digit+ | Digit+ '.' Digit* | Digit* '.' Digit+ ) Exp?
\*   Exp    ::= 'e' Sign? Digit+
\* with letters in either case
parse_f64(s) ==
    LET signed  == s # <<>> /\ s[1] \in {"+", "-"}
        neg     == signed /\ s[1] = "-"
        body    == IF signed THEN Tail(s) ELSE s
        low     == LowerAll(body)
        epos    == FirstIn(low, {"e"})
        mant    == IF epos = 0 THEN body ELSE SubSeq(body, 1, epos - 1)
        etext   == IF epos = 0 THEN <<>> ELSE SubSeq(body, epos + 1, Len(body))
        esigned == etext # <<>> /\ etext[1] \in {"+", "-"}
        eneg    == esigned /\ etext[1] = "-"
        edigits == IF esigned THEN Tail(etext) ELSE etext
        dot     == FirstIn(mant, {"."})
        ip      == IF dot = 0 THEN mant ELSE SubSeq(mant, 1, dot - 1)
        fp      == IF dot = 0 THEN <<>> ELSE SubSeq(mant, dot + 1, Len(mant))
        mantOk  == AllDigits(ip) /\ AllDigits(fp) /\ Len(ip) + Len(fp) >= 1
        expOk   == epos = 0 \/ (edigits # <<>> /\ AllDigits(edigits))
        e       == IF epos = 0 THEN 0
                   ELSE IF eneg THEN 0 - ExpMagnitude(edigits)
                   ELSE ExpMagnitude(edigits)
    IN  IF low = InfText \/ low = InfinityText
        THEN [ok |-> TRUE, val |-> Infinity(neg)]
        ELSE IF low = NanText THEN [ok |-> TRUE, val |-> NaN]
        ELSE IF mantOk /\ expOk
             THEN [ok |-> TRUE, val |-> FloatValue(neg, ip \o fp, e - Len(fp))]
        ELSE ParseErr

---------------------------------------------------------------------------
(* Node and Numeric *)

Integer(v) == [kind |-> "Integer", v |-> v]
Float(v)   == [kind |-> "Float", v |-> v]
Int32(v)   == [kind |-> "Int32", v |-> v]

Boolean(b)      == [kind |-> "Boolean", b |-> b]
Number(n)       == [kind |-> "Number", num |-> n]
Str(s)          == [kind |-> "Str", s |-> s]
Array(v)        == [kind |-> "Array", items |-> v]
Dictionary(m)   == [kind |-> "Dictionary", map |-> m]
Comment(t)      == [kind |-> "Comment", text |-> t]
Document(v)     == [kind |-> "Document", items |-> v]
None            == [kind |-> "None"]

---------------------------------------------------------------------------
(* #[derive(PartialEq)] of Numeric and Node: the == of two trees *)

\* the variant that compares two f64 bit for bit
f64_eq_bitwise(a, b) == a = b

\* f64 == f64: a NaN equals nothing, itself included
f64_eq(a, b) == a.cls # "nan" /\ b.cls # "nan" /\ a = b

\* Numeric == Numeric: the same variant and equal payloads
Numeric_eq(a, b) ==
    /\ a.kind = b.kind
    /\ IF a.kind = "Float" THEN f64_eq(a.v, b.v) ELSE a.v = b.v

\* Node == Node: the same variant and equal payloads; Vec compares element
\* by element and HashMap key by key
RECURSIVE Node_eq(_, _)
Node_eq(a, b) ==
    /\ a.kind = b.kind
    /\ CASE a.kind = "Number" -> Numeric_eq(a.num, b.num)
         [] a.kind \in {"Array", "Document"} ->
                /\ Len(a.items) = Len(b.items)
                /\ \A i \in 1..Len(a.items) : Node_eq(a.items[i], b.items[i])
         [] a.kind = "Dictionary" ->
                /\ DOMAIN a.map = DOMAIN b.map
                /\ \A k \in DOMAIN a.map : Node_eq(a.map[k], b.map[k])
         [] OTHER -> a = b

---------------------------------------------------------------------------
(* Scalar classification *)

NullText  == <<"n", "u", "l", "l">>
TildeText == <<"~">>
TrueText  == <<"t", "r", "u", "e">>
FalseText == <<"f", "a", "l", "s", "e">>

\* the variant in which the float test comes before the integer test
parse_scalar_float_first(v) ==
    IF v # <<>> /\ v[1] = "#" THEN Comment(trim(Tail(v)))
    ELSE IF v = NullText \/ v = TildeText THEN None
    ELSE IF v = TrueText THEN Boolean(TRUE)
    ELSE IF v = FalseText THEN Boolean(FALSE)
    ELSE IF parse_f64(v).ok THEN Number(Float(parse_f64(v).val))
    ELSE IF parse_i64(v).ok THEN Number(Integer(parse_i64(v).val))
    ELSE Str(v)

parse_scalar(v) ==
    IF v # <<>> /\ v[1] = "#" THEN Comment(trim(Tail(v)))
    ELSE IF v = NullText \/ v = TildeText THEN None
    ELSE IF v = TrueText THEN Boolean(TRUE)
    ELSE IF v = FalseText THEN Boolean(FALSE)
    ELSE IF parse_i64(v).ok THEN Number(Integer(parse_i64(v).val))
    ELSE IF parse_f64(v).ok THEN Number(Float(parse_f64(v).val))
    ELSE Str(v)

---------------------------------------------------------------------------
(* Parser helpers *)

\* skip_whitespace: the position it leaves the source at
RECURSIVE skip_whitespace(_, _)
skip_whitespace(buf, pos) ==
    IF more(buf, pos) /\ is_whitespace(current(buf, pos))
    THEN skip_whitespace(buf, next(pos))
    ELSE pos

\* the loops `while let Some(c) = source.current() { if c is a stop
\* { break; } text.push(c); source.next(); }`: the position they end at
RECURSIVE read_until(_, _, _)
read_until(buf, pos, stops) ==
    IF more(buf, pos) /\ current(buf, pos) \notin stops
    THEN read_until(buf, next(pos), stops)
    ELSE pos

\* the text such a loop pushed while it moved from position from to position to
pushed(buf, from, to) == SubSeq(buf, from + 1, to)

RECURSIVE NatToText(_)
NatToText(n) ==
    LET d == <<"0", "1", "2", "3", "4", "5", "6", "7", "8", "9">>
    IN  IF n < 10 THEN <<d[n + 1]>> ELSE NatToText(n \div 10) \o <<d[(n % 10) + 1]>>

\* format!("__comment_{}", n)
comment_key(n) ==
    <<"_", "_", "c", "o", "m", "m", "e", "n", "t", "_">> \o NatToText(n)

\* HashMap::new
EmptyMap == <<>>

\* HashMap::insert
insert(m, k, v) == [x \in (DOMAIN m) \cup {k} |-> IF x = k THEN v ELSE m[x]]

\* Vec::push
push(v, x) == Append(v, x)

\* Option<Node>
Some(n) == <<n>>
NoDoc   == <<>>

\* `if let Some(doc) = current_doc { documents.push(doc); }`
push_current(docs, cur) == IF cur # NoDoc THEN push(docs, cur[1]) ELSE docs

Running == [tag |-> "Running"]
Ok(n)   == [tag |-> "Ok", node |-> n]
Err(m)  == [tag |-> "Err", msg |-> m]

\* Result<Node, String> == Result<Node, String>
Result_eq(a, b) ==
    /\ a.tag = b.tag
    /\ IF a.tag = "Ok" THEN Node_eq(a.node, b.node) ELSE a = b

\* format!("Unexpected character: {}", c)
UnexpectedCharacter(c) == <<"Unexpected character: ", c>>

---------------------------------------------------------------------------
(* Inputs of the parser *)

\* longest text over Alphabet that is tried exhaustively
MaxLen == 4

\* most lines of LinePool that one input joins
MaxLines == 3

Alphabet == {"-", "#", ":", " ", "\n", "a", "1", "@"}

ShortInputs == UNION {[1..n -> Alphabet] : n \in 0..MaxLen}

LinePool == {
    <<"-", " ", "1">>,
    <<"-", " ", "a">>,
    <<"-", " ", "a", " ", "#", "1">>,
    <<"-", " ", " ">>,
    <<"a", ":", " ", "1">>,
    <<"a", ":", " ", "a">>,
    <<"1", ":", " ", "a">>,
    <<"a", ":", " ", "1", "#", "a">>,
    <<"a", ":", " ", " ">>,
    <<"#", " ", "a">>,
    <<"-", "-", "-">>,
    <<>>,
    <<"@">> }

RECURSIVE JoinLines(_)
JoinLines(ls) ==
    IF Len(ls) = 0 THEN <<>>
    ELSE IF Len(ls) = 1 THEN ls[1]
    ELSE ls[1] \o <<"\n">> \o JoinLines(Tail(ls))

LineInputs == {JoinLines(ls) : ls \in UNION {[1..n -> LinePool] : n \in 1..MaxLines}}

\* the inputs of the tests of parser/default.rs, and texts with the
\* whitespace and letters that Alphabet leaves out
NamedInputs == {
    <<"-", " ", "1", "\n", "-", " ", "2", "\n", "-", " ", "3">>,
    <<"-", " ", "1", "\n", "#", " ", "C", "o", "m", "m", "e", "n", "t", " ", "1",
      "\n", "-", " ", "2", "\n", "#", " ", "C", "o", "m", "m", "e", "n", "t", " ", "2">>,
    <<"k", "e", "y", "1", ":", " ", "v", "a", "l", "u", "e", "1", "\n",
      "k", "e", "y", "2", ":", " ", "4", "2">>,
    <<"@", "i", "n", "v", "a", "l", "i", "d">>,
    <<"#", " ", "J", "u", "s", "t", " ", "a", " ", "c", "o", "m", "m", "e", "n", "t">>,
    <<"\t", "\r", "\n", " ">>,
    <<"\f">>,
    <<"\f", "@">>,
    <<"\r", "\n", "?">>,
    <<"-", " ", "n", "a", "n">>,
    <<"-", " ", "1", "\r", "\n", "-", " ", "t", "r", "u", "e", "\n">>,
    <<"-", " ", "1", "\n", "\n", "-", " ", "2">> }

Inputs == ShortInputs \cup LineInputs \cup NamedInputs

---------------------------------------------------------------------------
(* parse, parse_sequence and parse_mapping over a Buffer source: one       *)
(* action for each iteration of their outer loops and for each return      *)

\* Option<Node> of the classifier's result
Unclassified == <<>>

NoOutcome == [op |-> "none", panicked |-> FALSE]

\* no earlier parse of the input has returned
NoEarlier == <<>>

\* Option<u8>::None
NoByte == <<>>

\* a file that holds bytes, the offset an open handle reads or writes at,
\* and whether the file can seek (a regular file can, a pipe cannot)
OpenFile(bytes, seekable) ==
    [content |-> bytes, offset |-> 0, seekable |-> seekable]

\* what a caller has noted of a source: the next() calls since new or the
\* last reset(), the characters that were under the cursor at those calls,
\* and the reset() calls
NoUse == [calls |-> 0, taken |-> <<>>, resets |-> 0]

ScalarIdle == value = <<>> /\ scalar = Unclassified
NodeIdle   == node = None /\ outcome = NoOutcome
SourceIdle ==
    /\ file = OpenFile(<<>>, TRUE)
    /\ current_byte = NoByte
    /\ buffer_use = NoUse
    /\ file_use = NoUse
DestIdle ==
    /\ dest_buffer = <<>>
    /\ dest_file = OpenFile(<<>>, TRUE)
    /\ file_length = 0
    /\ added_buffer = <<>>
    /\ added_file = <<>>
ParseIdle ==
    /\ buffer = <<>>
    /\ position = 0
    /\ pc = "idle"
    /\ documents = <<>>
    /\ current_doc = NoDoc
    /\ items = <<>>
    /\ map = EmptyMap
    /\ result = Running
    /\ earlier = NoEarlier

Init ==
    /\ buffer \in Inputs
    /\ position = 0
    /\ pc = "start"
    /\ documents = <<>>
    /\ current_doc = NoDoc
    /\ items = <<>>
    /\ map = EmptyMap
    /\ result = Running
    /\ earlier = NoEarlier
    /\ ScalarIdle
    /\ NodeIdle
    /\ SourceIdle
    /\ DestIdle

c_now == current(buffer, position)

\* parse: skip_whitespace(source), then the two `let mut`
ParseStart ==
    /\ pc = "start"
    /\ position' = skip_whitespace(buffer, position)
    /\ documents' = <<>>
    /\ current_doc' = NoDoc
    /\ pc' = "top"
    /\ UNCHANGED <<buffer, items, map, result, earlier, scalarVars, nodeVars, sourceVars, destVars>>

\* the guard of the first match arm of parse
first_dash_guard(docs, cur) == docs = <<>> \/ cur = NoDoc

\* the variant that pushes the pending document before the call
ParseSequenceCallKeeping ==
    /\ pc = "top"
    /\ c_now = "-"
    /\ first_dash_guard(documents, current_doc)
    /\ documents' = push_current(documents, current_doc)
    /\ items' = <<>>
    /\ pc' = "seq"
    /\ UNCHANGED <<buffer, position, current_doc, map, result,
                   earlier, scalarVars, nodeVars, sourceVars, destVars>>

\* parse: '-' if documents.is_empty() || current_doc.is_none() => call parse_sequence
ParseSequenceCall ==
    /\ pc = "top"
    /\ c_now = "-"
    /\ first_dash_guard(documents, current_doc)
    /\ items' = <<>>
    /\ pc' = "seq"
    /\ UNCHANGED <<buffer, position, documents, current_doc, map, result,
                   earlier, scalarVars, nodeVars, sourceVars, destVars>>

\* the variant that pushes None when no document is pending
ParseCommentPushingNone ==
    /\ pc = "top"
    /\ c_now = "#"
    /\ LET from == next(position)
           to   == read_until(buffer, from, {"\n"})
       IN  /\ position' = to
           /\ documents' = push(documents, IF current_doc # NoDoc THEN current_doc[1] ELSE None)
           /\ current_doc' = Some(Comment(trim(pushed(buffer, from, to))))
    /\ UNCHANGED <<buffer, pc, items, map, result, earlier, scalarVars, nodeVars, sourceVars, destVars>>

\* parse: '#' => a comment becomes the pending document
ParseComment ==
    /\ pc = "top"
    /\ c_now = "#"
    /\ LET from == next(position)
           to   == read_until(buffer, from, {"\n"})
       IN  /\ position' = to
           /\ documents' = push_current(documents, current_doc)
           /\ current_doc' = Some(Comment(trim(pushed(buffer, from, to))))
    /\ UNCHANGED <<buffer, pc, items, map, result, earlier, scalarVars, nodeVars, sourceVars, destVars>>

\* the variant without the three source.next()
ParseSeparatorStanding ==
    /\ pc = "top"
    /\ c_now = "-"
    /\ ~first_dash_guard(documents, current_doc)
    /\ documents' = push_current(documents, current_doc)
    /\ current_doc' = NoDoc
    /\ UNCHANGED <<buffer, position, pc, items, map, result, earlier, scalarVars, nodeVars, sourceVars, destVars>>

\* parse: '-' if source.current() == Some('-') && source.current() == Some('-')
\* (reached only when the first arm's guard is false)
ParseSeparator ==
    /\ pc = "top"
    /\ c_now = "-"
    /\ ~first_dash_guard(documents, current_doc)
    /\ current(buffer, position) = "-" /\ current(buffer, position) = "-"
    /\ documents' = push_current(documents, current_doc)
    /\ current_doc' = NoDoc
    /\ position' = next(next(next(position)))
    /\ UNCHANGED <<buffer, pc, items, map, result, earlier, scalarVars, nodeVars, sourceVars, destVars>>

\* parse: c if c.is_alphanumeric() => call parse_mapping
ParseMappingCall ==
    /\ pc = "top"
    /\ is_alphanumeric(c_now)
    /\ map' = EmptyMap
    /\ pc' = "map"
    /\ UNCHANGED <<buffer, position, documents, current_doc, items, result,
                   earlier, scalarVars, nodeVars, sourceVars, destVars>>

\* parse: c if c.is_whitespace() => source.next()
ParseWhitespace ==
    /\ pc = "top"
    /\ is_whitespace(c_now)
    /\ position' = next(position)
    /\ UNCHANGED <<buffer, pc, documents, current_doc, items, map, result,
                   earlier, scalarVars, nodeVars, sourceVars, destVars>>

\* parse: c => return Err(...)
ParseError ==
    /\ pc = "top"
    /\ c_now # NoChar
    /\ c_now \notin {"-", "#"}
    /\ ~is_alphanumeric(c_now)
    /\ ~is_whitespace(c_now)
    /\ result' = Err(UnexpectedCharacter(c_now))
    /\ pc' = "done"
    /\ UNCHANGED <<buffer, position, documents, current_doc, items, map,
                   earlier, scalarVars, nodeVars, sourceVars, destVars>>

\* the variant without the is_empty test
parse_result_no_empty_case(docs) ==
    IF Len(docs) = 1 THEN docs[1] ELSE Document(docs)

\* the variant that unwraps no single document
parse_result_no_unwrap(docs) ==
    IF docs = <<>> THEN None ELSE Document(docs)

\* the value parse returns once its loop has ended
parse_result(docs) ==
    IF docs = <<>> THEN None
    ELSE IF Len(docs) = 1 THEN docs[1]
    ELSE Document(docs)

\* parse: the loop ends at end of input; push the pending document, return
ParseReturn ==
    /\ pc = "top"
    /\ c_now = NoChar
    /\ documents' = push_current(documents, current_doc)
    /\ result' = Ok(parse_result(documents'))
    /\ pc' = "done"
    /\ UNCHANGED <<buffer, position, current_doc, items, map, earlier, scalarVars, nodeVars, sourceVars, destVars>>

\* the variant in which ':' ends a value as well
value_stops_at_colon == {"\n", "#", ":"}

\* the characters that end the value of an item or of a mapping entry
value_stops == {"\n", "#"}

\* parse_sequence: the '#' branch and the source.next() that ends the iteration
SequenceComment ==
    /\ pc = "seq"
    /\ c_now = "#"
    /\ LET from == next(position)
           to   == read_until(buffer, from, {"\n"})
       IN  /\ items' = push(items, Comment(trim(pushed(buffer, from, to))))
           /\ position' = next(to)
    /\ UNCHANGED <<buffer, pc, documents, current_doc, map, result,
                   earlier, scalarVars, nodeVars, sourceVars, destVars>>

\* parse_sequence: the '-' branch and the source.next() that ends the iteration
SequenceItem ==
    /\ pc = "seq"
    /\ c_now = "-"
    /\ LET from == skip_whitespace(buffer, next(position))
           to   == read_until(buffer, from, value_stops)
       IN  /\ items' = push(items, parse_scalar(trim(pushed(buffer, from, to))))
           /\ position' = next(to)
    /\ UNCHANGED <<buffer, pc, documents, current_doc, map, result,
                   earlier, scalarVars, nodeVars, sourceVars, destVars>>

\* parse_sequence: break, or end of input; Ok(Node::Array(items)) is
\* assigned to current_doc by the caller
SequenceReturn ==
    /\ pc = "seq"
    /\ c_now \notin {"#", "-"}
    /\ current_doc' = Some(Array(items))
    /\ pc' = "top"
    /\ UNCHANGED <<buffer, position, documents, items, map, result,
                   earlier, scalarVars, nodeVars, sourceVars, destVars>>

\* parse_mapping: the '#' branch and the source.next() that ends the iteration
MappingComment ==
    /\ pc = "map"
    /\ c_now = "#"
    /\ LET from == next(position)
           to   == read_until(buffer, from, {"\n"})
       IN  /\ map' = insert(map, comment_key(Cardinality(DOMAIN map)),
                            Comment(trim(pushed(buffer, from, to))))
           /\ position' = next(to)
    /\ UNCHANGED <<buffer, pc, documents, current_doc, items, result,
                   earlier, scalarVars, nodeVars, sourceVars, destVars>>

\* parse_mapping: the alphanumeric branch and the source.next() that ends
\* the iteration
MappingEntry ==
    /\ pc = "map"
    /\ is_alphanumeric(c_now)
    /\ LET kto  == read_until(buffer, position, {":"})
           from == skip_whitespace(buffer, next(kto))
           to   == read_until(buffer, from, value_stops)
       IN  /\ map' = insert(map, trim(pushed(buffer, position, kto)),
                            parse_scalar(trim(pushed(buffer, from, to))))
           /\ position' = next(to)
    /\ UNCHANGED <<buffer, pc, documents, current_doc, items, result,
                   earlier, scalarVars, nodeVars, sourceVars, destVars>>

\* the variant in which any other character ends the mapping, as it ends
\* a sequence
MappingSkipBreaks ==
    /\ pc = "map"
    /\ c_now # NoChar
    /\ c_now # "#"
    /\ ~is_alphanumeric(c_now)
    /\ current_doc' = Some(Dictionary(map))
    /\ pc' = "top"
    /\ UNCHANGED <<buffer, position, documents, items, map, result,
                   earlier, scalarVars, nodeVars, sourceVars, destVars>>

\* parse_mapping: any other character is stepped over
MappingSkip ==
    /\ pc = "map"
    /\ c_now # NoChar
    /\ c_now # "#"
    /\ ~is_alphanumeric(c_now)
    /\ position' = next(position)
    /\ UNCHANGED <<buffer, pc, documents, current_doc, items, map, result,
                   earlier, scalarVars, nodeVars, sourceVars, destVars>>

\* the variant that returns at any character
MappingReturnAnywhere ==
    /\ pc = "map"
    /\ current_doc' = Some(Dictionary(map))
    /\ pc' = "top"
    /\ UNCHANGED <<buffer, position, documents, items, map, result,
                   earlier, scalarVars, nodeVars, sourceVars, destVars>>

\* parse_mapping: end of input; Ok(Node::Dictionary(map)) is assigned to
\* current_doc by the caller
MappingReturn ==
    /\ pc = "map"
    /\ c_now = NoChar
    /\ current_doc' = Some(Dictionary(map))
    /\ pc' = "top"
    /\ UNCHANGED <<buffer, position, documents, items, map, result,
                   earlier, scalarVars, nodeVars, sourceVars, destVars>>

Next ==
    \/ ParseStart
    \/ ParseSequenceCall
    \/ ParseComment
    \/ ParseSeparator
    \/ ParseMappingCall
    \/ ParseWhitespace
    \/ ParseError
    \/ ParseReturn
    \/ SequenceComment
    \/ SequenceItem
    \/ SequenceReturn
    \/ MappingComment
    \/ MappingEntry
    \/ MappingSkip
    \/ MappingReturn

Spec == Init /\ [][Next]_vars

---------------------------------------------------------------------------
(* The same input parsed a second time, from a new Buffer over it *)

\* parse(&mut Buffer::new(input)) once more, after the first call returned:
\* the new source stands at position 0 and the locals of parse are new
ParseAgain ==
    /\ pc = "done"
    /\ earlier = NoEarlier
    /\ earlier' = Some(result)
    /\ position' = 0
    /\ pc' = "start"
    /\ documents' = <<>>
    /\ current_doc' = NoDoc
    /\ items' = <<>>
    /\ map' = EmptyMap
    /\ result' = Running
    /\ UNCHANGED <<buffer, scalarVars, nodeVars, sourceVars, destVars>>

NextTwice ==
    \/ Next
    \/ ParseAgain

SpecTwice == Init /\ [][NextTwice]_vars

---------------------------------------------------------------------------
(* The two sources on their own: a Buffer and a File over the same bytes.  *)
(* The file stays readable while the source lives; whether it can seek is  *)
(* a property of the file that was opened.                                 *)

\* longest content of a source
MaxContent == 3

\* most next() calls made on a source that is at the end of its content
MaxPast == 2

\* most reset() calls made on a source
MaxResets == 2

Bytes == {"a", "b"}

\* the contents of the tests of io/sources: "i32e", "a", "abc", ""
Contents ==
    UNION {[1..n -> Bytes] : n \in 0..MaxContent}
        \cup {<<"i", "3", "2", "e">>, <<"a", "b", "c">>}

\* StdFile::read of one byte: the byte at the offset, if there is one, and
\* the file with its offset moved past it
read_byte(f) ==
    IF f.offset < Len(f.content)
    THEN [file |-> [f EXCEPT !.offset = f.offset + 1],
          byte |-> <<f.content[f.offset + 1]>>]
    ELSE [file |-> f, byte |-> NoByte]

\* File::new: open the file and read its first byte
File_new(bytes, seekable) ==
    LET r == read_byte(OpenFile(bytes, seekable))
    IN  [file |-> r.file, current_byte |-> r.byte]

\* the variant that reads the first byte again once the end is reached
File_next_rereading(f) ==
    LET r == read_byte(f)
    IN  IF r.byte = NoByte
        THEN [file |-> read_byte([f EXCEPT !.offset = 0]).file,
              current_byte |-> read_byte([f EXCEPT !.offset = 0]).byte]
        ELSE [file |-> r.file, current_byte |-> r.byte]

\* File::next
File_next(f) ==
    LET r == read_byte(f)
    IN  [file |-> r.file, current_byte |-> r.byte]

\* File::current: the byte as a char (u8 as char keeps the code)
File_current(cb) == IF cb = NoByte THEN NoChar ELSE cb[1]

\* File::more
File_more(cb) == cb # NoByte

\* the variant that seeks to the start and reads nothing
File_reset_seek_only(f, cb) ==
    IF f.seekable
    THEN [file |-> [f EXCEPT !.offset = 0], current_byte |-> cb]
    ELSE [file |-> f, current_byte |-> cb]

\* File::reset: seek to the start and, if that worked, read the first byte
File_reset(f, cb) ==
    IF f.seekable
    THEN LET r == read_byte([f EXCEPT !.offset = 0])
         IN  [file |-> r.file, current_byte |-> r.byte]
    ELSE [file |-> f, current_byte |-> cb]

\* what a caller notes at a call of next(): one more call, and the
\* character that was under the cursor, if there was one
noted_next(use, c) ==
    [use EXCEPT !.calls = use.calls + 1,
                !.taken = IF c = NoChar THEN use.taken ELSE Append(use.taken, c)]

\* what a caller notes at a call of reset()
noted_reset(use) ==
    [use EXCEPT !.calls = 0, !.taken = <<>>, !.resets = use.resets + 1]

SourceInit ==
    /\ buffer \in Contents
    /\ position = 0
    /\ \E seekable \in BOOLEAN :
          /\ file = File_new(buffer, seekable).file
          /\ current_byte = File_new(buffer, seekable).current_byte
    /\ buffer_use = NoUse
    /\ file_use = NoUse
    /\ pc = "idle"
    /\ documents = <<>>
    /\ current_doc = NoDoc
    /\ items = <<>>
    /\ map = EmptyMap
    /\ result = Running
    /\ earlier = NoEarlier
    /\ ScalarIdle
    /\ NodeIdle
    /\ DestIdle

sourceFrame == <<buffer, pc, documents, current_doc, items, map, result,
                 earlier, scalarVars, nodeVars, destVars>>

\* source.next() on the Buffer
BufferNext ==
    /\ pc = "idle"
    /\ buffer_use.calls < Len(buffer) + MaxPast
    /\ position' = next(position)
    /\ buffer_use' = noted_next(buffer_use, current(buffer, position))
    /\ UNCHANGED <<file, current_byte, file_use, sourceFrame>>

\* source.reset() on the Buffer
BufferReset ==
    /\ pc = "idle"
    /\ buffer_use.resets < MaxResets
    /\ position' = reset(position)
    /\ buffer_use' = noted_reset(buffer_use)
    /\ UNCHANGED <<file, current_byte, file_use, sourceFrame>>

\* source.next() on the File
FileNext ==
    /\ pc = "idle"
    /\ file_use.calls < Len(file.content) + MaxPast
    /\ file' = File_next(file).file
    /\ current_byte' = File_next(file).current_byte
    /\ file_use' = noted_next(file_use, File_current(current_byte))
    /\ UNCHANGED <<position, buffer_use, sourceFrame>>

\* source.reset() on the File
FileReset ==
    /\ pc = "idle"
    /\ file_use.resets < MaxResets
    /\ file' = File_reset(file, current_byte).file
    /\ current_byte' = File_reset(file, current_byte).current_byte
    /\ file_use' = noted_reset(file_use)
    /\ UNCHANGED <<position, buffer_use, sourceFrame>>

SourceNext ==
    \/ BufferNext
    \/ BufferReset
    \/ FileNext
    \/ FileReset

SpecSource == SourceInit /\ [][SourceNext]_vars

---------------------------------------------------------------------------
(* The two destinations on their own: a Buffer and a File.  The file is    *)
(* written through the handle that File::new or clear made, and read back  *)
(* by last() through a handle of its own.                                  *)

\* most bytes added to a destination since new or clear
MaxAdded == 5

\* longest run of bytes that one add_bytes adds, the run of the tests apart
MaxRun == 2

DestBytes == {"1", "2"}

\* the arguments of add_bytes: short runs, the empty one among them, and
\* the "test" of the tests
Runs ==
    UNION {[1..n -> DestBytes] : n \in 0..MaxRun} \cup {<<"t", "e", "s", "t">>}

\* destinations::Buffer: add_byte
DestBuffer_add_byte(buf, b) == push(buf, b)

\* destinations::Buffer: add_bytes (extend_from_slice of the bytes of the str)
DestBuffer_add_bytes(buf, bytes) == buf \o bytes

\* destinations::Buffer: clear
DestBuffer_clear(buf) == <<>>

\* destinations::Buffer: last
DestBuffer_last(buf) == IF buf = <<>> THEN NoByte ELSE <<buf[Len(buf)]>>

\* StdFile::create: the file is emptied, the new handle stands at its start
create(f) == [f EXCEPT !.content = <<>>, !.offset = 0]

\* StdFile::write_all: the bytes go to the file at the offset of the handle
write_all(f, bytes) ==
    [f EXCEPT !.content = SubSeq(f.content, 1, f.offset) \o bytes
                            \o SubSeq(f.content, f.offset + Len(bytes) + 1,
                                      Len(f.content)),
              !.offset = f.offset + Len(bytes)]

\* destinations::File: add_byte
DestFile_add_byte(f, len, b) ==
    [file |-> write_all(f, <<b>>), file_length |-> len + 1]

\* destinations::File: add_bytes
DestFile_add_bytes(f, len, bytes) ==
    [file |-> write_all(f, bytes), file_length |-> len + Len(bytes)]

\* the variant that takes a new handle at the start of the file and leaves
\* the bytes of the file in place
DestFile_clear_reopening(f, len) ==
    [file |-> [f EXCEPT !.offset = 0], file_length |-> 0]

\* destinations::File: clear
DestFile_clear(f, len) ==
    [file |-> create(f), file_length |-> 0]

\* destinations::File: last; the seek to one byte before the end fails, and
\* the unwrap panics, on a file without bytes
DestFile_last(f, len) ==
    IF len = 0 THEN NoByte
    ELSE IF f.content = <<>>
         THEN [panicked |-> TRUE, msg |-> "seek before the start of the file"]
    ELSE <<f.content[Len(f.content)]>>

DestInit ==
    /\ dest_buffer = <<>>
    /\ dest_file = create(OpenFile(<<>>, TRUE))
    /\ file_length = 0
    /\ added_buffer = <<>>
    /\ added_file = <<>>
    /\ ParseIdle
    /\ ScalarIdle
    /\ NodeIdle
    /\ SourceIdle

destFrame == <<parseVars, scalarVars, nodeVars, sourceVars>>

\* destination.add_byte(b) on the Buffer
DestBufferAddByte(b) ==
    /\ Len(added_buffer) < MaxAdded
    /\ dest_buffer' = DestBuffer_add_byte(dest_buffer, b)
    /\ added_buffer' = added_buffer \o <<b>>
    /\ UNCHANGED <<dest_file, file_length, added_file, destFrame>>

\* destination.add_bytes(bytes) on the Buffer
DestBufferAddBytes(bytes) ==
    /\ Len(added_buffer) + Len(bytes) <= MaxAdded
    /\ dest_buffer' = DestBuffer_add_bytes(dest_buffer, bytes)
    /\ added_buffer' = added_buffer \o bytes
    /\ UNCHANGED <<dest_file, file_length, added_file, destFrame>>

\* destination.clear() on the Buffer
DestBufferClear ==
    /\ dest_buffer' = DestBuffer_clear(dest_buffer)
    /\ added_buffer' = <<>>
    /\ UNCHANGED <<dest_file, file_length, added_file, destFrame>>

\* destination.add_byte(b) on the File
DestFileAddByte(b) ==
    /\ Len(added_file) < MaxAdded
    /\ dest_file' = DestFile_add_byte(dest_file, file_length, b).file
    /\ file_length' = DestFile_add_byte(dest_file, file_length, b).file_length
    /\ added_file' = added_file \o <<b>>
    /\ UNCHANGED <<dest_buffer, added_buffer, destFrame>>

\* destination.add_bytes(bytes) on the File
DestFileAddBytes(bytes) ==
    /\ Len(added_file) + Len(bytes) <= MaxAdded
    /\ dest_file' = DestFile_add_bytes(dest_file, file_length, bytes).file
    /\ file_length' =
          DestFile_add_bytes(dest_file, file_length, bytes).file_length
    /\ added_file' = added_file \o bytes
    /\ UNCHANGED <<dest_buffer, added_buffer, destFrame>>

\* destination.clear() on the File
DestFileClear ==
    /\ dest_file' = DestFile_clear(dest_file, file_length).file
    /\ file_length' = DestFile_clear(dest_file, file_length).file_length
    /\ added_file' = <<>>
    /\ UNCHANGED <<dest_buffer, added_buffer, destFrame>>

DestNext ==
    \/ \E b \in DestBytes : DestBufferAddByte(b)
    \/ \E bytes \in Runs : DestBufferAddBytes(bytes)
    \/ DestBufferClear
    \/ \E b \in DestBytes : DestFileAddByte(b)
    \/ \E bytes \in Runs : DestFileAddBytes(bytes)
    \/ DestFileClear

SpecDest == DestInit /\ [][DestNext]_vars

---------------------------------------------------------------------------
(* Reading an input as lines, for the statements about line forms *)

RECURSIVE SplitLines(_)
SplitLines(s) ==
    LET i == FirstIn(s, {"\n"})
    IN  IF i = 0 THEN <<s>>
        ELSE <<SubSeq(s, 1, i - 1)>> \o SplitLines(SubSeq(s, i + 1, Len(s)))

\* the lines of s; a line break at the very end starts no further line
Lines(s) ==
    LET ls == SplitLines(s)
    IN  IF Len(ls) > 1 /\ ls[Len(ls)] = <<>> THEN SubSeq(ls, 1, Len(ls) - 1) ELSE ls

HasNoLineBreak(t) == \A i \in 1..Len(t) : t[i] \notin {"\n", "\r"}

\* '- <text>'
ItemText(l) == SubSeq(l, 3, Len(l))
IsItemLine(l) ==
    /\ Len(l) >= 3
    /\ l[1] = "-"
    /\ l[2] = " "
    /\ trim(ItemText(l)) # <<>>
    /\ HasNoLineBreak(ItemText(l))

\* '<key>: <value>'
EntryKey(l)   == SubSeq(l, 1, FirstIn(l, {":"}) - 1)
EntryValue(l) == SubSeq(l, FirstIn(l, {":"}) + 2, Len(l))
IsEntryLine(l) ==
    /\ FirstIn(l, {":"}) > 1
    /\ is_alphanumeric(l[1])
    /\ Len(l) >= FirstIn(l, {":"}) + 2
    /\ l[FirstIn(l, {":"}) + 1] = " "
    /\ trim(EntryValue(l)) # <<>>
    /\ HasNoLineBreak(l)

IsItemInput(s)  == \A i \in 1..Len(Lines(s)) : IsItemLine(Lines(s)[i])
IsEntryInput(s) == \A i \in 1..Len(Lines(s)) : IsEntryLine(Lines(s)[i])

EntryKeys(s) == {trim(EntryKey(Lines(s)[i])) : i \in 1..Len(Lines(s))}

DistinctKeys(s) ==
    \A i, j \in 1..Len(Lines(s)) :
        i # j => trim(EntryKey(Lines(s)[i])) # trim(EntryKey(Lines(s)[j]))

\* the last line of s whose trimmed key is k
LastLineWithKey(s, k) ==
    LET ls == Lines(s)
        at == {i \in 1..Len(ls) : trim(EntryKey(ls[i])) = k}
    IN  ls[CHOOSE i \in at : \A j \in at : j <= i]

\* Unicode White_Space, among the characters of the inputs
WhiteSpace == {" ", "\t", "\n", "\r", "\f"}

\* the first non-whitespace character of s, or NoChar
RECURSIVE FirstUnskipped(_)
FirstUnskipped(s) ==
    IF s = <<>> THEN NoChar
    ELSE IF s[1] \in WhiteSpace THEN FirstUnskipped(Tail(s))
    ELSE s[1]

Contains(s, c) == \E i \in 1..Len(s) : s[i] = c

ContainsSeparator(s) ==
    \E i \in 1..(Len(s) - 2) : s[i] = "-" /\ s[i + 1] = "-" /\ s[i + 2] = "-"

Returned == pc = "done"

---------------------------------------------------------------------------
(* Statements about parse *)

\* C1: an input that is empty or holds only space, tab, \n and \r parses
\* to Ok(Node::None), never to an error.
C1_WhitespaceOnlyIsNone ==
    (Returned /\ \A i \in 1..Len(buffer) : ISource_is_whitespace(buffer[i]))
        => result = Ok(None)

C1_Witness ==
    /\ Returned
    /\ Len(buffer) >= 3
    /\ \A i \in 1..Len(buffer) : ISource_is_whitespace(buffer[i])
    /\ result = Ok(None)

\* C2 as claimed: an input made only of n >= 1 lines '- <text>' parses to
\* the Array of the n classified trimmed texts, in source order.
C2_ItemLinesGiveArray ==
    (Returned /\ IsItemInput(buffer))
        => result = Ok(Array([i \in 1..Len(Lines(buffer)) |->
                                parse_scalar(trim(ItemText(Lines(buffer)[i])))]))

\* C3 as claimed: an input made only of lines '<key>: <value>' with distinct
\* keys parses to the Dictionary with one entry per line, the trimmed key
\* mapped to the classified trimmed value, and no other entry.
C3_EntryLinesGiveDictionary ==
    (Returned /\ IsEntryInput(buffer) /\ DistinctKeys(buffer))
        => result = Ok(Dictionary([k \in EntryKeys(buffer) |->
                        parse_scalar(trim(EntryValue(LastLineWithKey(buffer, k))))]))

C5_NoErrorAfterFirstChar ==
    (/\ Returned
     /\ \/ FirstUnskipped(buffer) = "-"
        \/ is_alphanumeric(FirstUnskipped(buffer)))
        => result.tag = "Ok"

\* a character the top-level match of parse has no arm for
Rejected(c) ==
    /\ c \notin {NoChar, "-", "#"} \cup WhiteSpace
    /\ ~is_alphanumeric(c)

\* C5 as amended: parse returns an error only from its top-level match, for
\* a character that is neither '-', '#', alphanumeric nor whitespace, and
\* the error names that character; when the first significant character
\* is alphanumeric parse returns Ok whatever follows, but when it is '-' a
\* later character that ends the sequence can still be rejected.
C5_ErrorOnlyFromTopLevel ==
    /\ (Returned /\ result.tag = "Err")
          => /\ Rejected(c_now)
             /\ result = Err(UnexpectedCharacter(c_now))
             /\ ~is_alphanumeric(FirstUnskipped(buffer))
    /\ (Returned /\ is_alphanumeric(FirstUnskipped(buffer)))
          => result.tag = "Ok"

C5_Witness ==
    /\ Returned
    /\ FirstUnskipped(buffer) = "-"
    /\ result = Err(UnexpectedCharacter("@"))

C5_WitnessMapping ==
    /\ Returned
    /\ is_alphanumeric(FirstUnskipped(buffer))
    /\ Contains(buffer, "@")
    /\ result.tag = "Ok"

\* C9 as claimed: when several lines '<key>: <value>' of a mapping input
\* have the same trimmed key, the Dictionary has one entry for that key and
\* it holds the classified value of the last such line.
C9_LastWriteWins ==
    (Returned /\ IsEntryInput(buffer) /\ ~DistinctKeys(buffer))
        => /\ result.tag = "Ok"
           /\ result.node.kind = "Dictionary"
           /\ \A k \in EntryKeys(buffer) :
                /\ k \in DOMAIN result.node.map
                /\ result.node.map[k] =
                      parse_scalar(trim(EntryValue(LastLineWithKey(buffer, k))))

IsDocument == Returned /\ result.tag = "Ok" /\ result.node.kind = "Document"

\* C10 as claimed: parse returns a Document only when the input contains
\* `---`; without it the result is None, an Array, a Dictionary or a Comment.
C10_DocumentOnlyWithSeparator ==
    IsDocument => ContainsSeparator(buffer)

\* C10 as amended: parse returns a Document only when the input contains a
\* '#' comment, with or without `---`; an input without '#' parses to None,
\* a single Array or a single Dictionary, never to a Document, even when it
\* contains `---`.
C10_DocumentOnlyWithComment ==
    /\ IsDocument => Contains(buffer, "#")
    /\ (Returned /\ result.tag = "Ok" /\ ~Contains(buffer, "#"))
          => result.node.kind \in {"None", "Array", "Dictionary"}

C10_Witness ==
    /\ IsDocument
    /\ ~ContainsSeparator(buffer)
    /\ Len(result.node.items) >= 2

C10_WitnessSeparator ==
    /\ Returned
    /\ result.tag = "Ok"
    /\ ContainsSeparator(buffer)
    /\ Len(Lines(buffer)) = 3
    /\ Lines(buffer)[2] = <<"-", "-", "-">>
    /\ ~Contains(buffer, "#")
    /\ result.node.kind = "Array"

---------------------------------------------------------------------------
(* parse_scalar on its own: the texts it is applied to *)

\* longest text over ScalarAlphabet that is classified
MaxScalarLen == 4

ScalarAlphabet == {"0", "1", "-", "+", ".", "e", "#", " ", "a", "~"}

ShortScalars == UNION {[1..n -> ScalarAlphabet] : n \in 0..MaxScalarLen}

\* the texts of test_parse_scalar, and texts at the edges of the number
\* formats
NamedScalars == {
    NullText, TildeText, TrueText, FalseText,
    <<"4", "2">>,
    <<"3", ".", "1", "4">>,
    <<"h", "e", "l", "l", "o">>,
    <<"#", "c", "o", "m", "m", "e", "n", "t">>,
    <<"#", " ", "a", " ", "b", " ">>,
    <<"T", "r", "u", "e">>,
    <<"N", "u", "l", "l">>,
    InfText, NanText, InfinityText,
    <<"-", "I", "n", "f">>,
    <<"+", "N", "a", "N">>,
    <<"1", "E", "+", "2">>,
    <<"0", "0", "1", "0", "0">>,
    <<"1", "e", "3", "0", "9">>,
    <<"1", "e", "-", "4", "0", "0">>,
    I64MaxMag, I64MinMag,
    <<"-">> \o I64MinMag,
    <<"-">> \o I64MaxMag \o <<"0">> }

ScalarInputs == ShortScalars \cup NamedScalars

ScalarInit ==
    /\ value \in ScalarInputs
    /\ scalar = Unclassified
    /\ ParseIdle
    /\ NodeIdle
    /\ SourceIdle
    /\ DestIdle

\* a call parse_scalar(value)
ClassifyScalar ==
    /\ scalar = Unclassified
    /\ scalar' = Some(parse_scalar(value))
    /\ UNCHANGED <<value, parseVars, nodeVars, sourceVars, destVars>>

ScalarNext == ClassifyScalar

SpecScalar == ScalarInit /\ [][ScalarNext]_vars

---------------------------------------------------------------------------
(* Statements about parse_scalar *)

\* digits with an optional leading '-'
IsIntegerLexical(s) ==
    LET ds == IF s # <<>> /\ s[1] = "-" THEN Tail(s) ELSE s
    IN  ds # <<>> /\ \A i \in 1..Len(ds) : ds[i] \in Digit

\* digits with an optional leading '+' or '-' whose value fits 64 bits
IsI64Lexical(s) ==
    LET signed == s # <<>> /\ s[1] \in {"+", "-"}
        ds     == IF signed THEN Tail(s) ELSE s
        mag    == StripLeadingZeros(ds)
    IN  /\ ds # <<>>
        /\ \A i \in 1..Len(ds) : ds[i] \in Digit
        /\ \/ Len(mag) < 19
           \/ /\ Len(mag) = 19
              /\ IF s[1] = "-" THEN ~LexLess(I64MinMag, mag)
                 ELSE ~LexLess(I64MaxMag, mag)

\* the state a recognizer of decimal float literals is in after one more
\* character
FloatStep(st, c) ==
    CASE st = "start"  /\ c \in {"+", "-"} -> "signed"
      [] st \in {"start", "signed"} /\ c \in Digit -> "int"
      [] st \in {"start", "signed"} /\ c = "." -> "dot"
      [] st = "int" /\ c \in Digit -> "int"
      [] st = "int" /\ c = "." -> "frac"
      [] st = "dot" /\ c \in Digit -> "frac"
      [] st = "frac" /\ c \in Digit -> "frac"
      [] st \in {"int", "frac"} /\ c \in {"e", "E"} -> "e"
      [] st = "e" /\ c \in {"+", "-"} -> "esigned"
      [] st \in {"e", "esigned", "exp"} /\ c \in Digit -> "exp"
      [] OTHER -> "bad"

RECURSIVE FloatRun(_, _)
FloatRun(st, s) == IF s = <<>> THEN st ELSE FloatRun(FloatStep(st, s[1]), Tail(s))

\* a decimal literal with optional sign, fraction and exponent, or one of
\* inf, infinity, nan in any case with an optional sign
IsFloatLexical(s) ==
    \/ FloatRun("start", s) \in {"int", "frac", "exp"}
    \/ LET body == IF s # <<>> /\ s[1] \in {"+", "-"} THEN Tail(s) ELSE s
       IN  LowerAll(body) \in {InfText, InfinityText, NanText}

IsNumber(n, k) == n.kind = "Number" /\ n.num.kind = k

Classified == scalar # Unclassified

\* C6 as claimed: for every trimmed text the classifier returns the first
\* match of: "null" or "~" -> None; "true" and "false" -> Boolean; digits
\* with an optional leading '-' -> Number(Integer); float-lexical text ->
\* Number(Float); every other text -> Str holding the text verbatim.
C6_ClassifierPriority ==
    (Classified /\ value = trim(value)) =>
        IF value \in {NullText, TildeText} THEN scalar[1] = None
        ELSE IF value = TrueText THEN scalar[1] = Boolean(TRUE)
        ELSE IF value = FalseText THEN scalar[1] = Boolean(FALSE)
        ELSE IF IsIntegerLexical(value) THEN IsNumber(scalar[1], "Integer")
        ELSE IF IsFloatLexical(value) THEN IsNumber(scalar[1], "Float")
        ELSE scalar[1] = Str(value)

\* C6 as amended: for every text the classifier returns the first match
\* of: text starting with '#' -> Comment holding the rest, trimmed; "null"
\* or "~" -> None; "true" and "false" -> Boolean; digits with an optional
\* leading '+' or '-' whose value fits 64 bits -> Number(Integer); a
\* decimal literal with optional sign, fraction and exponent (among them
\* the integers beyond 64 bits), or inf, infinity, nan in any case ->
\* Number(Float); every other text -> Str holding the text verbatim.
C6_ClassifierPriorityWithComment ==
    Classified =>
        IF value # <<>> /\ value[1] = "#"
             THEN scalar[1] = Comment(trim(Tail(value)))
        ELSE IF value \in {NullText, TildeText} THEN scalar[1] = None
        ELSE IF value = TrueText THEN scalar[1] = Boolean(TRUE)
        ELSE IF value = FalseText THEN scalar[1] = Boolean(FALSE)
        ELSE IF IsI64Lexical(value) THEN IsNumber(scalar[1], "Integer")
        ELSE IF IsFloatLexical(value) THEN IsNumber(scalar[1], "Float")
        ELSE scalar[1] = Str(value)

C6_Witness ==
    /\ Classified
    /\ value = <<"#", "c", "o", "m", "m", "e", "n", "t">>
    /\ scalar[1] = Comment(<<"c", "o", "m", "m", "e", "n", "t">>)

C6_WitnessPlusSign ==
    /\ Classified
    /\ value = <<"+", "1">>
    /\ IsNumber(scalar[1], "Integer")

C6_WitnessOverflow ==
    /\ Classified
    /\ value = I64MinMag
    /\ IsNumber(scalar[1], "Float")

---------------------------------------------------------------------------
(* Index and IndexMut of Node *)

\* longest Array or Document that is indexed
MaxItems == 2

\* indexes run from 0 to MaxItems, so that one lies past every Array
Indexes == 0..MaxItems

Keys == {<<"k", "e", "y">>, <<"n", "o", "n", "e", "x", "i", "s", "t", "e", "n", "t">>}

Leaves == {None, Boolean(TRUE), Number(Int32(1)), Number(Int32(42)), Str(<<"a">>)}

ItemLists == UNION {[1..n -> Leaves] : n \in 0..MaxItems}

Dictionaries == UNION {[ks -> Leaves] : ks \in SUBSET Keys}

Nodes ==
    Leaves
        \cup {Comment(<<"c">>)}
        \cup {Array(v) : v \in ItemLists}
        \cup {Document(v) : v \in ItemLists}
        \cup {Dictionary(m) : m \in Dictionaries}

Panic(m)    == [panicked |-> TRUE, msg |-> m]
Returns(n)  == [panicked |-> FALSE, ret |-> n]
Stored(n)   == [panicked |-> FALSE, node |-> n]

\* Vec's index out of bounds and HashMap's missing key
OutOfBounds == "index out of bounds"
NoEntry     == "no entry found for key"

\* impl Index<usize> for Node
index_usize(n, i) ==
    IF n.kind = "Array"
    THEN IF i < Len(n.items) THEN Returns(n.items[i + 1]) ELSE Panic(OutOfBounds)
    ELSE Panic("Cannot index non-array node with integer")

\* the variant that answers Node::None for a key that is absent
index_str_or_none(n, k) ==
    IF n.kind = "Dictionary"
    THEN IF k \in DOMAIN n.map THEN Returns(n.map[k]) ELSE Returns(None)
    ELSE Panic("Cannot index non-dictionary node with string")

\* impl Index<&str> for Node
index_str(n, k) ==
    IF n.kind = "Dictionary"
    THEN IF k \in DOMAIN n.map THEN Returns(n.map[k]) ELSE Panic(NoEntry)
    ELSE Panic("Cannot index non-dictionary node with string")

\* the variant that inserts at the index instead of replacing
assign_usize_inserting(n, i, v) ==
    IF n.kind = "Array"
    THEN IF i < Len(n.items)
         THEN Stored(Array(SubSeq(n.items, 1, i) \o <<v>>
                            \o SubSeq(n.items, i + 1, Len(n.items))))
         ELSE Panic(OutOfBounds)
    ELSE Panic("Cannot index non-array node with integer")

\* impl IndexMut<usize> for Node, and the store through the reference it
\* returns: node[i] = v
assign_usize(n, i, v) ==
    IF n.kind = "Array"
    THEN IF i < Len(n.items)
         THEN Stored(Array([n.items EXCEPT ![i + 1] = v]))
         ELSE Panic(OutOfBounds)
    ELSE Panic("Cannot index non-array node with integer")

\* impl IndexMut<&str> for Node, and the store through the reference it
\* returns: node[k] = v
assign_str(n, k, v) ==
    IF n.kind = "Dictionary"
    THEN IF k \in DOMAIN n.map
         THEN Stored(Dictionary([n.map EXCEPT ![k] = v]))
         ELSE Panic("No such key exists")
    ELSE Panic("Cannot index non-dictionary node with string")

NodeInit ==
    /\ node \in Nodes
    /\ outcome = NoOutcome
    /\ ParseIdle
    /\ ScalarIdle
    /\ SourceIdle
    /\ DestIdle

\* let _value = &node[i]
IndexUsize(i) ==
    /\ ~outcome.panicked
    /\ outcome' = [op |-> "index_usize", target |-> node, arg |-> i,
                   panicked |-> index_usize(node, i).panicked,
                   did |-> index_usize(node, i)]
    /\ UNCHANGED <<node, parseVars, scalarVars, sourceVars, destVars>>

\* let _value = &node[k]
IndexStr(k) ==
    /\ ~outcome.panicked
    /\ outcome' = [op |-> "index_str", target |-> node, arg |-> k,
                   panicked |-> index_str(node, k).panicked,
                   did |-> index_str(node, k)]
    /\ UNCHANGED <<node, parseVars, scalarVars, sourceVars, destVars>>

\* node[i] = v
AssignUsize(i, v) ==
    /\ ~outcome.panicked
    /\ LET r == assign_usize(node, i, v)
       IN  /\ node' = IF r.panicked THEN node ELSE r.node
           /\ outcome' = [op |-> "assign_usize", target |-> node, arg |-> i,
                          val |-> v, panicked |-> r.panicked, did |-> r]
    /\ UNCHANGED <<parseVars, scalarVars, sourceVars, destVars>>

\* node[k] = v
AssignStr(k, v) ==
    /\ ~outcome.panicked
    /\ LET r == assign_str(node, k, v)
       IN  /\ node' = IF r.panicked THEN node ELSE r.node
           /\ outcome' = [op |-> "assign_str", target |-> node, arg |-> k,
                          val |-> v, panicked |-> r.panicked, did |-> r]
    /\ UNCHANGED <<parseVars, scalarVars, sourceVars, destVars>>

NodeNext ==
    \/ \E i \in Indexes : IndexUsize(i)
    \/ \E k \in Keys : IndexStr(k)
    \/ \E i \in Indexes, v \in Leaves : AssignUsize(i, v)
    \/ \E k \in Keys, v \in Leaves : AssignStr(k, v)

SpecNode == NodeInit /\ [][NodeNext]_vars

---------------------------------------------------------------------------
(* Statements about indexing *)

ByInteger == outcome.op \in {"index_usize", "assign_usize"}
ByKey     == outcome.op \in {"index_str", "assign_str"}

\* the operation stopped with a panic: it returned nothing and stored nothing
FailedFast ==
    /\ outcome.panicked
    /\ outcome.did.panicked
    /\ DOMAIN outcome.did = {"panicked", "msg"}
    /\ node = outcome.target

\* C7: indexing outside the defined domain panics and returns no value:
\* an integer index (read or write) on a node that is not an Array, a
\* Document included; a key (read or write) on a node that is not a
\* Dictionary; a key (read or write) that a Dictionary does not hold.
C7_IndexOutsideDomainPanics ==
    /\ (ByInteger /\ outcome.target.kind # "Array") => FailedFast
    /\ (ByKey /\ outcome.target.kind # "Dictionary") => FailedFast
    /\ (ByKey /\ outcome.target.kind = "Dictionary"
              /\ outcome.arg \notin DOMAIN outcome.target.map) => FailedFast

C7_Witness ==
    /\ outcome.op = "index_usize"
    /\ outcome.target.kind = "Document"
    /\ Len(outcome.target.items) > outcome.arg
    /\ FailedFast

C7_WitnessAbsentKey ==
    /\ outcome.op = "index_str"
    /\ outcome.target.kind = "Dictionary"
    /\ DOMAIN outcome.target.map # {}
    /\ outcome.arg \notin DOMAIN outcome.target.map
    /\ FailedFast

\* C8: a[i] = v on an Array with valid i leaves a[i] = v, the length and
\* every other element as they were; d[k] = v on a Dictionary that holds k
\* leaves d[k] = v, the key set and every other entry as they were; an
\* assignment through an index never adds an element or a key.
C8_AssignChangesOnlyTarget ==
    /\ (outcome.op = "assign_usize" /\ ~outcome.panicked) =>
          /\ node.kind = "Array"
          /\ Len(node.items) = Len(outcome.target.items)
          /\ node.items[outcome.arg + 1] = outcome.val
          /\ \A j \in 1..Len(node.items) :
                j # outcome.arg + 1 => node.items[j] = outcome.target.items[j]
    /\ (outcome.op = "assign_str" /\ ~outcome.panicked) =>
          /\ node.kind = "Dictionary"
          /\ DOMAIN node.map = DOMAIN outcome.target.map
          /\ node.map[outcome.arg] = outcome.val
          /\ \A k \in DOMAIN node.map :
                k # outcome.arg => node.map[k] = outcome.target.map[k]
    /\ (outcome.op = "assign_usize" /\ outcome.target.kind = "Array"
            /\ outcome.arg >= Len(outcome.target.items)) => node = outcome.target
    /\ (outcome.op = "assign_str" /\ outcome.target.kind = "Dictionary"
            /\ outcome.arg \notin DOMAIN outcome.target.map) => node = outcome.target

C8_Witness ==
    /\ outcome.op = "assign_usize"
    /\ ~outcome.panicked
    /\ Len(node.items) = 2
    /\ outcome.arg = 0
    /\ node.items[1] = Number(Int32(42))
    /\ outcome.target.items[1] = Number(Int32(1))
    /\ node.items[2] = outcome.target.items[2]

C8_WitnessDictionary ==
    /\ outcome.op = "assign_str"
    /\ ~outcome.panicked
    /\ Cardinality(DOMAIN node.map) = 2
    /\ node # outcome.target

---------------------------------------------------------------------------
(* Statements about parsing the same input twice *)

\* a NaN float somewhere in the tree
RECURSIVE HoldsNaN(_)
HoldsNaN(n) ==
    CASE n.kind = "Number" -> n.num.kind = "Float" /\ n.num.v.cls = "nan"
      [] n.kind \in {"Array", "Document"} ->
             \E i \in 1..Len(n.items) : HoldsNaN(n.items[i])
      [] n.kind = "Dictionary" -> \E k \in DOMAIN n.map : HoldsNaN(n.map[k])
      [] OTHER -> FALSE

ParsedTwice == Returned /\ earlier # NoEarlier

C11_WitnessNaN ==
    /\ ParsedTwice
    /\ result.tag = "Ok"
    /\ HoldsNaN(result.node)
    /\ earlier[1] = result
    /\ ~Result_eq(earlier[1], result)

---------------------------------------------------------------------------
(* Statements about comment lines *)

\* '# <comment>'
IsCommentLine(l) == l # <<>> /\ l[1] = "#"
CommentText(l)   == Tail(l)

\* a first line '- <text>', and every line '- <text>' or '# <comment>'
IsItemAndCommentInput(s) ==
    /\ IsItemLine(Lines(s)[1])
    /\ \A i \in 1..Len(Lines(s)) :
          IsItemLine(Lines(s)[i]) \/ IsCommentLine(Lines(s)[i])

\* the element that a line of such an input stands for
ElementOf(l) ==
    IF IsCommentLine(l) THEN Comment(trim(CommentText(l)))
    ELSE parse_scalar(trim(ItemText(l)))

\* C12 as claimed: an input that is one comment line parses to the Comment
\* holding the trimmed text after '#'; an input that starts with an item
\* line and whose lines are each '- <text>' or '# <comment>' parses to the
\* Array with one element for each line, in source order: the classified
\* scalar of an item line, the Comment of a comment line.
C12_CommentLinesKept ==
    /\ (Returned /\ Len(Lines(buffer)) = 1 /\ IsCommentLine(Lines(buffer)[1]))
          => result = Ok(Comment(trim(CommentText(Lines(buffer)[1]))))
    /\ (Returned /\ IsItemAndCommentInput(buffer))
          => result = Ok(Array([i \in 1..Len(Lines(buffer)) |->
                                  ElementOf(Lines(buffer)[i])]))

---------------------------------------------------------------------------
(* Statements about the sources *)

\* the character k places after the start of the content, if there is one
At(content, k) == IF k < Len(content) THEN content[k + 1] ELSE NoChar

\* the first k characters of the content, or all of it
Upto(content, k) ==
    SubSeq(content, 1, IF k < Len(content) THEN k ELSE Len(content))

\* as many next() calls as the content is long were made since new or reset
BufferAtEnd == buffer_use.calls >= Len(buffer)
FileAtEnd   == file_use.calls >= Len(file.content)

\* C13 as claimed: next() at the end of input is a no-op: the cursor stays
\* at the end (the position of a Buffer never exceeds the length of its
\* buffer), current() stays None and more() stays false.
C13_CursorSaturates ==
    /\ position <= Len(buffer)
    /\ file.offset <= Len(file.content)
    /\ BufferAtEnd =>
          current(buffer, position) = NoChar /\ ~more(buffer, position)
    /\ FileAtEnd =>
          File_current(current_byte) = NoChar /\ ~File_more(current_byte)

\* C13 as amended: at the end of input, and after any further next(),
\* current() is None and more() is false; the File source then stays as it
\* is, its offset at the length of the file; the Buffer source counts every
\* call, so that its position exceeds the length of its buffer by the
\* number of next() calls made at the end.
C13_NextAtEndKeepsNone ==
    /\ BufferAtEnd =>
          current(buffer, position) = NoChar /\ ~more(buffer, position)
    /\ FileAtEnd =>
          /\ File_current(current_byte) = NoChar
          /\ ~File_more(current_byte)
          /\ file.offset = Len(file.content)
    /\ file.offset <= Len(file.content)
    /\ position = buffer_use.calls

C13_Witness ==
    /\ Len(buffer) >= 1
    /\ buffer_use.calls = Len(buffer) + 2
    /\ position = Len(buffer) + 2
    /\ current(buffer, position) = NoChar
    /\ file_use.calls = Len(file.content) + 2
    /\ file.offset = Len(file.content)
    /\ current_byte = NoByte

\* C14 as claimed: after reset(), whatever next() calls came before, the
\* source is as a new source over the same content: current() is the first
\* character (None for empty content), and k further next() calls pass the
\* first k characters and leave current() at the next one, so a traversal
\* yields the whole content again.
C14_ResetIsFresh ==
    /\ buffer_use.resets > 0 =>
          /\ current(buffer, position) = At(buffer, buffer_use.calls)
          /\ more(buffer, position) <=> buffer_use.calls < Len(buffer)
          /\ buffer_use.taken = Upto(buffer, buffer_use.calls)
    /\ file_use.resets > 0 =>
          /\ File_current(current_byte) = At(file.content, file_use.calls)
          /\ File_more(current_byte) <=> file_use.calls < Len(file.content)
          /\ file_use.taken = Upto(file.content, file_use.calls)

\* C14 as amended: the same of a Buffer source, and of a File source whose
\* file can seek; reset() on a File whose file cannot seek is not a rewind.
C14_ResetIsFreshIfSeekable ==
    /\ buffer_use.resets > 0 =>
          /\ current(buffer, position) = At(buffer, buffer_use.calls)
          /\ more(buffer, position) <=> buffer_use.calls < Len(buffer)
          /\ buffer_use.taken = Upto(buffer, buffer_use.calls)
    /\ (file_use.resets > 0 /\ file.seekable) =>
          /\ File_current(current_byte) = At(file.content, file_use.calls)
          /\ File_more(current_byte) <=> file_use.calls < Len(file.content)
          /\ file_use.taken = Upto(file.content, file_use.calls)

\* reset() after calls past the end, then a whole traversal
C14_Witness ==
    /\ buffer_use.resets = 2
    /\ position = Len(buffer) + 1
    /\ buffer_use.taken = buffer
    /\ Len(buffer) = 3
    /\ file.seekable
    /\ file_use.resets = 2
    /\ file_use.calls = Len(file.content) + 1
    /\ file_use.taken = file.content

\* reset() on a file that cannot seek, at the end of a content of 3
C14_WitnessNoSeek ==
    /\ ~file.seekable
    /\ Len(file.content) = 3
    /\ file_use.resets = 1
    /\ file_use.calls = 0
    /\ current_byte = NoByte

\* C15: more() is true exactly when current() returns a character; after
\* k next() calls on a new source over a content of length n, current() is
\* the (k+1)-th byte when k < n and None when k >= n; the characters read
\* with current() before each next() while more() are the content, in
\* order, once.
C15_MoreIffCurrent ==
    /\ more(buffer, position) <=> current(buffer, position) # NoChar
    /\ File_more(current_byte) <=> File_current(current_byte) # NoChar
    /\ buffer_use.resets = 0 =>
          /\ current(buffer, position) = At(buffer, buffer_use.calls)
          /\ buffer_use.taken = Upto(buffer, buffer_use.calls)
          /\ ~more(buffer, position) => buffer_use.taken = buffer
    /\ file_use.resets = 0 =>
          /\ File_current(current_byte) = At(file.content, file_use.calls)
          /\ file_use.taken = Upto(file.content, file_use.calls)
          /\ ~File_more(current_byte) => file_use.taken = file.content

C15_Witness ==
    /\ buffer_use.resets = 0
    /\ buffer = <<"a", "b", "c">>
    /\ ~more(buffer, position)
    /\ buffer_use.taken = buffer
    /\ file_use.resets = 0
    /\ ~File_more(current_byte)
    /\ file_use.taken = file.content

C15_WitnessMidway ==
    /\ file.content = <<"i", "3", "2", "e">>
    /\ file_use.resets = 0
    /\ file_use.calls = 2
    /\ File_current(current_byte) = "2"
    /\ File_more(current_byte)

---------------------------------------------------------------------------
(* Statements about the destinations *)

\* the final byte of a run of bytes, if it has one
FinalByte(bytes) == IF bytes = <<>> THEN NoByte ELSE <<bytes[Len(bytes)]>>

\* C16: after any add_byte, add_bytes and clear calls, last() of a
\* destination is the final byte of all that was added since the last
\* clear (or since new), and None when nothing was added since then, also
\* after add_bytes of the empty string; file_length of the File
\* destination is the number of bytes added since then.
C16_LastIsFinalByteAdded ==
    /\ DestBuffer_last(dest_buffer) = FinalByte(added_buffer)
    /\ DestFile_last(dest_file, file_length) = FinalByte(added_file)
    /\ file_length = Len(added_file)

\* add_byte and add_bytes("test"), as in file_length_works
C16_Witness ==
    /\ added_file = <<"1", "t", "e", "s", "t">>
    /\ file_length = 5
    /\ DestFile_last(dest_file, file_length) = <<"t">>
    /\ added_buffer = <<"t", "e", "s", "t", "2">>
    /\ DestBuffer_last(dest_buffer) = <<"2">>

---------------------------------------------------------------------------
(* Statements about the kind of the result *)

ReturnedOk == Returned /\ result.tag = "Ok"

\* every line is blank or has '-' as its first non-whitespace character
EveryLineStartsWithDash(s) ==
    \A i \in 1..Len(Lines(s)) : FirstUnskipped(Lines(s)[i]) \in {"-", NoChar}

\* C17 as claimed: the first non-whitespace character decides the kind of
\* the result: after '-' every successful parse returns an Array, after an
\* alphanumeric character every successful parse returns a Dictionary.
C17_KindDecidedByFirstChar ==
    /\ (ReturnedOk /\ FirstUnskipped(buffer) = "-")
          => result.node.kind = "Array"
    /\ (ReturnedOk /\ is_alphanumeric(FirstUnskipped(buffer)))
          => result.node.kind = "Dictionary"

\* C17 as amended: after an alphanumeric first character parse returns a
\* Dictionary; after '-' the first dispatch is to the sequence, but the
\* input that follows decides the kind: the result is an Array, a
\* Dictionary or a Document, and it is an Array when the input holds no '#'
\* and every line that is not blank starts with '-'.
C17_KindFollowsLaterInput ==
    /\ (Returned /\ is_alphanumeric(FirstUnskipped(buffer)))
          => (result.tag = "Ok" /\ result.node.kind = "Dictionary")
    /\ (ReturnedOk /\ FirstUnskipped(buffer) = "-")
          => result.node.kind \in {"Array", "Dictionary", "Document"}
    /\ (Returned /\ FirstUnskipped(buffer) = "-"
            /\ EveryLineStartsWithDash(buffer) /\ ~Contains(buffer, "#"))
          => (result.tag = "Ok" /\ result.node.kind = "Array")

\* a sequence, then a line that starts a mapping
C17_Witness ==
    /\ ReturnedOk
    /\ FirstUnskipped(buffer) = "-"
    /\ ~Contains(buffer, "#")
    /\ Len(Lines(buffer)) = 2
    /\ IsItemLine(Lines(buffer)[1])
    /\ IsEntryLine(Lines(buffer)[2])
    /\ result.node.kind = "Dictionary"

\* a sequence, a blank line, then a comment
C17_WitnessDocument ==
    /\ ReturnedOk
    /\ FirstUnskipped(buffer) = "-"
    /\ Len(Lines(buffer)) = 3
    /\ IsItemLine(Lines(buffer)[1])
    /\ ~Contains(Lines(buffer)[1], "#")
    /\ Lines(buffer)[2] = <<>>
    /\ IsCommentLine(Lines(buffer)[3])
    /\ result.node.kind = "Document"

\* lines that all start with '-', with a blank line among them
C17_WitnessArray ==
    /\ ReturnedOk
    /\ EveryLineStartsWithDash(buffer)
    /\ ~Contains(buffer, "#")
    /\ Len(Lines(buffer)) = 3
    /\ Lines(buffer)[2] = <<>>
    /\ result.node.kind = "Array"

---------------------------------------------------------------------------
(* Statements about termination *)

\* the step moved the cursor on
Advanced == position' > position

\* the step left the loop it was in: a call, a break or a return
LeftLoop == pc' # pc

\* parse_sequence or parse_mapping was called and has made no iteration yet
JustCalled == (pc = "seq" /\ items = <<>>) \/ (pc = "map" /\ map = EmptyMap)

\* a bound on the steps a run has left: three for each character ahead of
\* the cursor (the cursor stops at most two places past the end), and the
\* steps that leave the cursor where it is: a call, and the return or the
\* break that follow at least one iteration
StepsLeft ==
    3 * (Len(buffer) + 3 - position)
        + (CASE pc = "start" -> 3
             [] pc = "top" -> 2
             [] pc \in {"seq", "map"} -> IF JustCalled THEN 1 ELSE 3
             [] pc = "done" -> 0)

\* C18: parse of a finite input terminates, without a panic, and returns
\* Ok(tree) or Err: every iteration of the loops of parse, parse_sequence
\* and parse_mapping moves the cursor on by at least one character or
\* leaves the loop, and the first iteration after a call of parse_sequence
\* or parse_mapping moves the cursor on; so a natural number that bounds
\* the steps left decreases at every step until parse returns.
C18_ParseTerminates ==
    /\ [][Advanced \/ LeftLoop]_vars
    /\ [](pc = "seq" /\ items = <<>> => c_now = "-")
    /\ [](pc = "map" /\ map = EmptyMap => is_alphanumeric(c_now))
    /\ [](StepsLeft >= 0)
    /\ [][StepsLeft' < StepsLeft]_vars
    /\ [](Returned => result.tag \in {"Ok", "Err"})

\* a run through the loops of parse_sequence, parse_mapping and parse, with
\* characters that parse_mapping steps over
C18_Witness ==
    /\ ReturnedOk
    /\ FirstUnskipped(buffer) = "-"
    /\ Len(Lines(buffer)) = 3
    /\ Contains(Lines(buffer)[3], "@")
    /\ result.node.kind = "Dictionary"
    /\ position >= Len(buffer)

C18_WitnessErr ==
    /\ Returned
    /\ result.tag = "Err"
    /\ Len(Lines(buffer)) = 3
    /\ position < Len(buffer)

---------------------------------------------------------------------------
(* A mapping runs to the end of the input *)

StartsWithKey == is_alphanumeric(FirstUnskipped(buffer))

\* C19: when the first character that is not whitespace is alphanumeric,
\* parse_sequence is never entered, no document is pushed before the
\* return, parse_mapping has returned only with the source exhausted, and
\* parse returns Ok of the Dictionary that parse_mapping built, with the
\* source exhausted.
C19_MappingRunsToEnd ==
    StartsWithKey =>
        /\ pc \in {"start", "top", "map", "done"}
        /\ items = <<>>
        /\ ~Returned => documents = <<>>
        /\ (pc = "top" /\ current_doc # NoDoc)
              => (c_now = NoChar /\ current_doc = Some(Dictionary(map)))
        /\ Returned
              => /\ result = Ok(Dictionary(map))
                 /\ documents = <<Dictionary(map)>>
                 /\ ~more(buffer, position)

\* a key, then a separator line, then an item line
C19_Witness ==
    /\ Returned
    /\ StartsWithKey
    /\ Len(Lines(buffer)) = 3
    /\ Lines(buffer)[2] = <<"-", "-", "-">>
    /\ IsItemLine(Lines(buffer)[3])
    /\ result.tag = "Ok"
    /\ result.node.kind = "Dictionary"

\* a key, then a character that the top level rejects
C19_WitnessRejected ==
    /\ Returned
    /\ StartsWithKey
    /\ Len(Lines(buffer)) = 2
    /\ Lines(buffer)[2] = <<"@">>
    /\ result.tag = "Ok"
    /\ DOMAIN result.node.map # {}

---------------------------------------------------------------------------
(* The pending document *)

ItemsBlankItems == <<"-", " ", "1", "\n", "\n", "-", " ", "2">>

\* item lines, then entry lines, and no comment
IsItemsThenEntries(s) ==
    /\ ~Contains(s, "#")
    /\ \E k \in 1..(Len(Lines(s)) - 1) :
          /\ \A i \in 1..k : IsItemLine(Lines(s)[i])
          /\ \A i \in (k + 1)..Len(Lines(s)) : IsEntryLine(Lines(s)[i])

Dispatched == pc = "top" /\ pc' \in {"seq", "map"}
CameBack   == pc \in {"seq", "map"} /\ pc' = "top"

\* C20: during one parse the list of documents changes only by a push of
\* the pending document, in the '#' arm, in the separator arm or at the
\* return; a call of parse_sequence or parse_mapping leaves the list as it
\* is and its return puts the new node in the place of the pending one.
\* So "- 1", a blank line and "- 2" give Array([Integer(2)]), and item
\* lines followed by entry lines give the Dictionary alone.
C20_DispatchReplacesPending ==
    /\ [][(pc # "done" /\ documents' # documents)
            => /\ pc = "top"
               /\ \/ c_now = "#"
                  \/ c_now = "-" /\ ~first_dash_guard(documents, current_doc)
                  \/ c_now = NoChar
               /\ current_doc # NoDoc
               /\ documents' = Append(documents, current_doc[1])]_vars
    /\ [][Dispatched => UNCHANGED <<documents, current_doc>>]_vars
    /\ [][CameBack
            => /\ documents' = documents
               /\ current_doc' \in {Some(Array(items)), Some(Dictionary(map))}]_vars
    /\ [](Returned /\ buffer = ItemsBlankItems
            => result = Ok(Array(<<Number(Integer([neg |-> FALSE, mag |-> <<"2">>]))>>)))
    /\ [](Returned /\ IsItemsThenEntries(buffer)
            => /\ result.tag = "Ok"
               /\ result.node = Dictionary(map)
               /\ documents = <<Dictionary(map)>>)

\* a pending Array is replaced by the Array of the later items
C20_Witness ==
    /\ Returned
    /\ buffer = ItemsBlankItems
    /\ result.tag = "Ok"
    /\ result.node.kind = "Array"
    /\ Len(result.node.items) = 1

\* a pending Array is replaced by a Dictionary
C20_WitnessDictionary ==
    /\ Returned
    /\ IsItemsThenEntries(buffer)
    /\ items # <<>>
    /\ result.tag = "Ok"
    /\ result.node.kind = "Dictionary"

\* a call with a document pending
C20_WitnessDispatch ==
    /\ pc \in {"seq", "map"}
    /\ current_doc # NoDoc
    /\ current_doc[1].kind \in {"Array", "Comment"}

---------------------------------------------------------------------------
(* Comment lines of a mapping *)

CommentKeyPrefix == <<"_", "_", "c", "o", "m", "m", "e", "n", "t", "_">>

IsCommentKey(k) ==
    /\ Len(k) > Len(CommentKeyPrefix)
    /\ SubSeq(k, 1, Len(CommentKeyPrefix)) = CommentKeyPrefix

\* an entry line first, and every line an entry line or a comment line
IsEntryAndCommentInput(s) ==
    /\ IsEntryLine(Lines(s)[1])
    /\ \A i \in 1..Len(Lines(s)) :
          IsEntryLine(Lines(s)[i]) \/ IsCommentLine(Lines(s)[i])

CommentLinesOf(s) == {i \in 1..Len(Lines(s)) : IsCommentLine(Lines(s)[i])}

\* C21 as claimed: in a mapping every comment line has an entry of its own
\* under a key "__comment_N", holding its trimmed text, and every key of
\* an entry line has an entry that is no comment: the Dictionary has as
\* many comment keys as the input has comment lines.
C21_CommentLinesKeyed ==
    (Returned /\ IsEntryAndCommentInput(buffer))
        => /\ result.tag = "Ok"
           /\ result.node.kind = "Dictionary"
           /\ LET m == result.node.map
                   commentKeys == {k \in DOMAIN m : IsCommentKey(k)}
              IN  /\ Cardinality(commentKeys) = Cardinality(CommentLinesOf(buffer))
                  /\ \A k \in commentKeys : m[k].kind = "Comment"
                  /\ \A i \in CommentLinesOf(buffer) :
                        \E k \in commentKeys :
                            m[k] = Comment(trim(CommentText(Lines(buffer)[i])))
                  /\ \A i \in 1..Len(Lines(buffer)) :
                        IsEntryLine(Lines(buffer)[i])
                            => /\ trim(EntryKey(Lines(buffer)[i])) \in DOMAIN m
                               /\ m[trim(EntryKey(Lines(buffer)[i]))].kind # "Comment"

---------------------------------------------------------------------------
(* The shape of the result *)

IsPrefix(a, b) == Len(a) <= Len(b) /\ SubSeq(b, 1, Len(a)) = a

\* C22: a Document that parse returns has at least two children, each an
\* Array, a Dictionary or a Comment, and a Dictionary only as the last
\* one; the children are the documents in the order in which the cursor
\* reached them, since during a parse the list only grows at its end and
\* the cursor never moves back; parse returns None exactly when no
\* document was produced and the document itself when there is one.
C22_DocumentShape ==
    /\ [](IsDocument
            => /\ Len(result.node.items) >= 2
               /\ result.node.items = documents
               /\ \A i \in 1..Len(result.node.items) :
                     result.node.items[i].kind \in {"Array", "Dictionary", "Comment"}
               /\ \A i \in 1..(Len(result.node.items) - 1) :
                     result.node.items[i].kind # "Dictionary")
    /\ [][pc # "done" => (IsPrefix(documents, documents') /\ position' >= position)]_vars
    /\ [](ReturnedOk
            => /\ result.node.kind = "None" <=> documents = <<>>
               /\ Len(documents) = 1 => result.node = documents[1]
               /\ Len(documents) >= 2 => result.node.kind = "Document"
               /\ \A i \in 1..Len(documents) :
                     documents[i].kind \in {"Array", "Dictionary", "Comment"})

\* a Document of a comment and a Dictionary
C22_Witness ==
    /\ IsDocument
    /\ Len(result.node.items) = 2
    /\ result.node.items[1].kind = "Comment"
    /\ result.node.items[2].kind = "Dictionary"

\* a Document with an Array in it
C22_WitnessArray ==
    /\ IsDocument
    /\ \E i \in 1..Len(result.node.items) : result.node.items[i].kind = "Array"

\* a single document, returned as it is
C22_WitnessUnwrapped ==
    /\ ReturnedOk
    /\ Len(documents) = 1
    /\ result.node.kind = "Comment"

===========================================================================
